---- MODULE Spec2Model ----
(***************************************************************************)
(* Model of the segmented transcription pipeline of enacom_transcriptor    *)
(* (processing.run_processing and the helpers it calls).                   *)
(*                                                                         *)
(* Time.  The code computes in float seconds.  The model counts time in    *)
(* samples of the decoded file: a file of nsamples samples at samplerate   *)
(* samples per second lasts nsamples / samplerate seconds, a window of     *)
(* segment_duration seconds is segment_duration * samplerate samples, and  *)
(* int(x) of a time x given in samples is x \div samplerate.               *)
(***************************************************************************)
EXTENDS Integers, Sequences, FiniteSets, TLC

\* ------------------------------------------------------------------ bounds

\* segment loop on its own (specification SegSpec)
SegMaxSamples == 100
SegMaxRate == 2
SegMaxWindow == 30

\* the pipeline (specification Spec)
MaxFiles == 2           \* files of a batch
MaxSamples == 3         \* len(data) of a decoded file
SampleRate == 2         \* samplerate of a decoded file
MaxWindow == 1          \* segment_duration
MaxTuples == 2          \* tuples of one ASR answer
MaxRunTuples == 2       \* tuples of all the ASR answers of a run
MaxOffset == 1          \* clip-relative start and end of a tuple, in samples
MaxTurns == 2           \* speaker turns of a diarization, for _speaker_for alone
MaxTime == 2            \* start and end of a speaker turn, for _speaker_for alone
MaxTextLen == 3         \* characters of a text, for the scanner alone
MaxTermLen == 2         \* characters of a configured term, for the scanner alone
MaxPaths == 3           \* paths handed to the packager, for the packager alone
MaxFaults == 1          \* failures of external calls in a run

\* ------------------------------------------------------------------ helpers

Max(a, b) == IF a >= b THEN a ELSE b

Min(a, b) == IF a <= b THEN a ELSE b

\* math.ceil(a / b) for a >= 0, b > 0
Ceil(a, b) == (a + b - 1) \div b

\* Python's None where a path, a list or a dict may stand: the empty tuple.  A
\* value that is there is never the empty tuple, except a list, and the code
\* treats an empty list and None alike wherever both can occur.
None == <<>>

\* ------------------------------------------------------------------ segmenter
\* processing.py 188-189, 265-267.  Every time is a number of samples.

\* total_duration = len(data) / samplerate if samplerate else 0.0
TotalDuration(nsamples, samplerate) == IF samplerate # 0 THEN nsamples ELSE 0

NumSegmentsNoFloor(total_duration, samplerate, segment_duration) ==
    IF samplerate = 0 THEN 0
    ELSE Ceil(total_duration, segment_duration * samplerate)

NumSegmentsPlusOne(total_duration, samplerate, segment_duration) ==
    IF samplerate = 0 THEN 1
    ELSE total_duration \div (segment_duration * samplerate) + 1

\* num_segments = max(1, math.ceil(total_duration / segment_duration))
NumSegments(total_duration, samplerate, segment_duration) ==
    IF samplerate = 0 THEN 1
    ELSE Max(1, Ceil(total_duration, segment_duration * samplerate))

\* start_sec = i * segment_duration
StartSec(i, samplerate, segment_duration) == i * segment_duration * samplerate

EndSecNoClamp(i, samplerate, segment_duration, total_duration) ==
    (i + 1) * segment_duration * samplerate

\* end_sec = min((i + 1) * segment_duration, total_duration)
EndSec(i, samplerate, segment_duration, total_duration) ==
    Min((i + 1) * segment_duration * samplerate, total_duration)

\* ------------------------------------------------------------------ text
\* A text is a sequence of one-character strings.

\* the characters str.strip() removes
Whitespace == {" "}

RECURSIVE LStrip(_)
LStrip(s) == IF s # <<>> /\ Head(s) \in Whitespace THEN LStrip(Tail(s)) ELSE s

RECURSIVE RStrip(_)
RStrip(s) ==
    IF s # <<>> /\ s[Len(s)] \in Whitespace THEN RStrip(SubSeq(s, 1, Len(s) - 1)) ELSE s

\* str.strip()
Strip(s) == RStrip(LStrip(s))

LowerChar(c) == CASE c = "A" -> "a" [] c = "B" -> "b" [] c = "L" -> "l" [] OTHER -> c

\* str.lower()
Lower(s) == [k \in 1..Len(s) |-> LowerChar(s[k])]

\* `sub in s`
Contains(sub, s) ==
    \E p \in 0..(Len(s) - Len(sub)) : SubSeq(s, p + 1, p + Len(sub)) = sub

\* the characters the regular expression class \w matches
WordChars == {"a", "b", "A", "B", "_", "0"}

IsWordAt(s, k) == k \in 1..Len(s) /\ s[k] \in WordChars

\* \b between s[q] and s[q+1]
WordBoundary(s, q) == IsWordAt(s, q) # IsWordAt(s, q + 1)

\* re.search(rf"\b{re.escape(termino)}\b", texto, flags=re.IGNORECASE)
SearchWholeWord(termino, texto) ==
    \E p \in 0..(Len(texto) - Len(termino)) :
        /\ Lower(SubSeq(texto, p + 1, p + Len(termino))) = Lower(termino)
        /\ WordBoundary(texto, p)
        /\ WordBoundary(texto, p + Len(termino))

\* audio_ui.hhmmss: str(datetime.timedelta(seconds=int(seconds))), kept as
\* <<days, hours, minutes, seconds>>
hhmmss(seconds) ==
    << seconds \div 86400, (seconds % 86400) \div 3600, (seconds % 3600) \div 60, seconds % 60 >>

\* int(t) of a time t given in samples
IntSec(t, samplerate) == t \div samplerate

\* ------------------------------------------------------------------ speakers
RECURSIVE SpeakerForHalfOpen(_, _)
SpeakerForHalfOpen(t2, diar) ==
    IF diar = <<>> THEN ""
    ELSE IF 2 * Head(diar).start <= t2 /\ t2 < 2 * Head(diar).end
         THEN Head(diar).speaker
         ELSE SpeakerForHalfOpen(t2, Tail(diar))

RECURSIVE SpeakerForDefault(_, _)
SpeakerForDefault(t2, diar) ==
    IF diar = <<>> THEN "SPEAKER_00"
    ELSE IF 2 * Head(diar).start <= t2 /\ t2 <= 2 * Head(diar).end
         THEN Head(diar).speaker
         ELSE SpeakerForDefault(t2, Tail(diar))

\* processing._speaker_for.  t2 is twice the time t, so that the midpoint
\* (s_start + s_end) / 2.0 stays an integer.
RECURSIVE SpeakerFor(_, _)
SpeakerFor(t2, diar) ==
    IF diar = <<>> THEN ""
    ELSE IF 2 * Head(diar).start <= t2 /\ t2 <= 2 * Head(diar).end
         THEN Head(diar).speaker
         ELSE SpeakerFor(t2, Tail(diar))

\* ------------------------------------------------------------------ infractions
\* infracciones.detectar_infracciones_en_texto

TermMatches(termino, texto, coincidencia_parcial) ==
    IF coincidencia_parcial THEN Contains(termino, Lower(texto))
    ELSE SearchWholeWord(termino, texto)

RECURSIVE Halladas(_, _, _, _, _, _)
Halladas(archivo, texto, inicio, fin, cfg_items, coincidencia_parcial) ==
    IF cfg_items = <<>> THEN <<>>
    ELSE LET termino == Lower(Strip(Head(cfg_items).termino))
             rest == Halladas(archivo, texto, inicio, fin, Tail(cfg_items), coincidencia_parcial)
         IN  IF termino = <<>> THEN rest
             ELSE IF TermMatches(termino, texto, coincidencia_parcial)
                  THEN << [archivo |-> archivo, termino |-> termino, inicio |-> inicio,
                           fin |-> fin, texto |-> texto] >> \o rest
                  ELSE rest

detectar_infracciones_en_texto(archivo, texto, inicio, fin, infracciones_cfg, coincidencia_parcial) ==
    IF texto = <<>> \/ infracciones_cfg = <<>> THEN <<>>
    ELSE Halladas(archivo, texto, inicio, fin, infracciones_cfg, coincidencia_parcial)

\* ------------------------------------------------------------------ inputs

FileNames == {"a.wav", "b.wav"}

\* the batches: up to MaxFiles names, the first one "a.wav" (the names matter
\* only through being equal or different)
Batches(S) == {q \in S : q = <<>> \/ q[1] = "a.wav"}

\* os.path.splitext(audio_file.name)[0]
FileBase(name) == CASE name = "a.wav" -> "a" [] name = "b.wav" -> "b" [] OTHER -> name

FileBases == {FileBase(n) : n \in FileNames}

RECURSIVE SeqsUpTo(_, _)
SeqsUpTo(S, n) ==
    IF n = 0 THEN {<<>>}
    ELSE LET shorter == SeqsUpTo(S, n - 1)
         IN  shorter \cup {Append(q, x) : q \in {r \in shorter : Len(r) = n - 1}, x \in S}

\* what the recogniser may put into a tuple: blank, padded, and a longer word
EngineTexts == { <<" ">>, <<" ", "a">>, <<"a", "b">> }

\* one {start, end, text} of model.transcribe's "segments", relative to the clip:
\* a phrase from start to end, which is after the clip's beginning
EngineTuples ==
    { tup \in [start : 0..MaxOffset, end : 1..MaxOffset, text : EngineTexts] :
        tup.start <= tup.end }

\* cfg["infracciones"] as ui.render_config stores it
TermConfigs == { <<>>, << [termino |-> <<"b">>], [termino |-> <<"a">>] >> }

\* the answers of diarize_audio: unavailable, or speaker turns
DiarTurns == { << [start |-> 0, end |-> 1, speaker |-> "SPEAKER_00"] >> }

\* a checkpoint an interrupted earlier run left behind
StaleCheckpoint ==
    [file |-> "pickle", next_segment |-> 1,
     segments_done |-> << [start |-> 0, end |-> 0, text |-> <<"a", "b">>, speaker |-> ""] >>]

\* no file at PROGRESS_PATH
NoFile == [file |-> "absent", next_segment |-> 0, segments_done |-> <<>>]

\* what a failed pickle.dump leaves of the file it opened with "wb"
Truncated == [file |-> "truncated", next_segment |-> 0, segments_done |-> <<>>]

VARIABLES
    \* one call of a function on its own
    args,           \* the arguments of the call
    ret,            \* <<the value returned>>, None before the return
    \* the segment loop on its own
    seg_n,          \* len(data)
    seg_rate,       \* samplerate
    seg_w,          \* segment_duration
    seg_i,          \* the loop variable i
    seg_list,       \* the (start_sec, end_sec) windows produced so far
    \* run_processing: inputs
    cfg,            \* modo_lote, diarization, export_zip, segment_duration,
                    \* infracciones, coincidencia_parcial
    audio_files,    \* sidebar["audio_files"], the names
    ffmpeg,         \* whether the machine has an ffmpeg that ensure_ffmpeg can find
    \* run_processing: control
    pc,             \* the statement run_processing is at
    idx,            \* index of the current file (0-based)
    i,              \* index of the current segment (0-based)
    \* st.session_state
    session,        \* procesado, resultados, lote_result, run_meta, run_package
    files_status,   \* the "Archivos procesados" count shown
    file_status,    \* per file: the final message shown
    \* run_processing: locals of the batch
    infracciones_lote,
    files_info,
    generated_paths,
    \* run_processing: locals of the current file
    samplerate,
    total_duration,
    num_segments,
    diar,
    segments_done,
    infracciones_encontradas,
    segment_errors,
    result,         \* the tuples of `result` the for loop has not consumed yet
    \* the file system
    clips,          \* number of temporary clips (_mktemp_wav) that exist
    progress_disk,  \* PROGRESS_PATH per base name: NoFile, Truncated or a checkpoint
    txt_disk,       \* TXT_PATH per base name: NoText or the lines
    xlsx_disk,      \* EXCEL_PATH per base name: NoWorkbook or the workbook
    l_txt,          \* L_TXT_PATH: NoText or the lines
    l_xlsx,         \* L_XLSX_PATH: NoWorkbook or the workbook
    docx_disk,      \* the set of report files that exist
    zip_disk,       \* RUN_ZIP_PATH: None or the archive's members
    \* history, for stating properties
    seg_log,        \* per ended ASR step of the current file: failed?, the tuples
    progress_log,   \* the checkpoints written for the current file
    decode_log,     \* per file met so far: whether sf.read succeeded
    clips_made,     \* clips created in the current segment iteration
    diar_log,       \* how the diarization of the current file ended
    last_write,     \* how the last attempt to write the current file's checkpoint ended
    lote_log,       \* the files that reached the batch accumulators: name, events, infractions
    clips_leaked,   \* clips whose os.remove failed
    ckpt_kept,      \* the checkpoints whose os.remove failed
    tuples_left,    \* tuples the recogniser may still return in this run
    faults_left     \* failures of external calls that may still happen in this run

fvars == <<args, ret>>

svars == <<seg_n, seg_rate, seg_w, seg_i, seg_list>>

invars == <<cfg, audio_files, ffmpeg>>

rmvars == <<clips_leaked, ckpt_kept>>

batchvars == <<infracciones_lote, files_info, generated_paths>>

filevars ==
    <<samplerate, total_duration, num_segments, diar, segments_done,
      infracciones_encontradas, segment_errors, result>>

diskvars == <<clips, progress_disk, txt_disk, xlsx_disk, l_txt, l_xlsx, docx_disk, zip_disk>>

histvars ==
    <<seg_log, progress_log, decode_log, clips_made, diar_log, last_write, tuples_left,
      faults_left>>

pvars ==
    <<invars, rmvars, lote_log, pc, idx, i, session, files_status, file_status, batchvars, filevars,
      diskvars, histvars>>

vars == <<fvars, svars, pvars>>

\* the pipeline at rest, while the segment loop is examined on its own
PipeIdle ==
    /\ cfg = "None" /\ audio_files = <<>> /\ ffmpeg = TRUE
    /\ pc = "idle" /\ idx = 0 /\ i = 0
    /\ session = "None" /\ files_status = 0 /\ file_status = <<>>
    /\ infracciones_lote = <<>> /\ files_info = <<>> /\ generated_paths = <<>>
    /\ samplerate = 0 /\ total_duration = 0 /\ num_segments = 0 /\ diar = None
    /\ segments_done = <<>> /\ infracciones_encontradas = <<>> /\ segment_errors = 0
    /\ result = <<>>
    /\ clips = 0 /\ progress_disk = <<>> /\ txt_disk = <<>> /\ xlsx_disk = <<>>
    /\ l_txt = <<>> /\ l_xlsx = <<>> /\ docx_disk = {} /\ zip_disk = None
    /\ seg_log = <<>> /\ progress_log = <<>> /\ decode_log = <<>> /\ clips_made = 0
    /\ diar_log = "None" /\ last_write = "None"
    /\ clips_leaked = 0 /\ ckpt_kept = {} /\ lote_log = <<>>
    /\ tuples_left = 0 /\ faults_left = 0

\* no function is called on its own
FnIdle == args = None /\ ret = None

\* the segment loop at rest, while the pipeline runs
SegIdle ==
    /\ seg_n = 0 /\ seg_rate = 1 /\ seg_w = 1 /\ seg_i = 0 /\ seg_list = <<>>

\* ------------------------------------------------------------------ exporters
\* A workbook is a record of its sheets, each the sequence of its rows (none: no
\* such sheet, or an empty one).

IND_HEADERS == <<"Inicio", "Fin", "Hablante", "Texto">>

LOTE_HEADERS == <<"Archivo", "Inicio", "Fin", "Hablante", "Texto">>

INF_HEADERS == <<"Archivo", "Termino", "Inicio", "Fin", "Texto">>

\* no file at the path
NoWorkbook == [exists |-> FALSE, Transcripcion |-> <<>>, Infracciones |-> <<>>, Resumen |-> {}]

\* Workbook(): no sheet with a row
NewWorkbook == [exists |-> TRUE, Transcripcion |-> <<>>, Infracciones |-> <<>>, Resumen |-> {}]

\* no file at the path of a text
NoText == [exists |-> FALSE, lines |-> <<>>]

\* open(path, "w") and the header written
NewText(header) == [exists |-> TRUE, lines |-> <<header>>]

InsertText(txt, line) ==
    [exists |-> TRUE, lines |-> <<Head(txt.lines), line>> \o Tail(txt.lines)]

\* open(path, "a") and one line written
AppendText(txt, line) == [exists |-> TRUE, lines |-> Append(txt.lines, line)]

\* exporters.ensure_excel_file for one sheet: the headers go into an empty sheet only
ensure_excel_file(wb, sheet_name, headers) ==
    LET w == IF wb.exists THEN wb ELSE NewWorkbook
    IN  [w EXCEPT ![sheet_name] = IF w[sheet_name] = <<>> THEN <<headers>> ELSE w[sheet_name]]

\* exporters.append_to_excel
append_to_excel(wb, row, headers) ==
    LET w == ensure_excel_file(wb, "Transcripcion", headers)
    IN  [w EXCEPT !.Transcripcion = Append(@, row)]

InfRow(inf) == <<inf.archivo, inf.termino, inf.inicio, inf.fin, inf.texto>>

\* exporters.write_infracciones_excel: both sheets are replaced
write_infracciones_excel(wb, infracciones) ==
    LET w == ensure_excel_file(wb, "Infracciones", INF_HEADERS)
        keys == {<<infracciones[k].archivo, infracciones[k].termino>> : k \in DOMAIN infracciones}
    IN  [w EXCEPT
           !.Infracciones = <<INF_HEADERS>> \o [k \in DOMAIN infracciones |-> InfRow(infracciones[k])],
           !.Resumen = { <<key[1], key[2],
                           Cardinality({k \in DOMAIN infracciones :
                               <<infracciones[k].archivo, infracciones[k].termino>> = key})>> :
                         key \in keys }]

\* ------------------------------------------------------------------ paths

TxtPath(base) == <<"txt", base>>

XlsxPath(base) == <<"xlsx", base>>

DocxPath(base) == <<"docx", base>>

lote_base == "lote"

\* os.path.exists, docxs being the reports that exist
PathExists(path, docxs) ==
    CASE path[1] = "txt" -> IF path[2] = lote_base THEN l_txt.exists ELSE txt_disk[path[2]].exists
      [] path[1] = "xlsx" -> IF path[2] = lote_base THEN l_xlsx.exists ELSE xlsx_disk[path[2]].exists
      [] OTHER -> path \in docxs

\* ------------------------------------------------------------------ run_processing

DefaultSession ==
    [procesado |-> FALSE, resultados |-> <<>>, lote_result |-> None, run_meta |-> None,
     run_package |-> None]

\* what an earlier run of the same session left in st.session_state
EarlierSession ==
    [procesado |-> TRUE,
     resultados |-> << [archivo |-> "old.wav", file_base |-> "old", txt |-> TxtPath("old"),
                        xlsx |-> XlsxPath("old"), docx |-> None] >>,
     lote_result |-> None,
     run_meta |-> <<"earlier">>,
     run_package |-> <<"corrida_earlier.zip">>]

Init ==
    /\ FnIdle
    /\ SegIdle
    /\ cfg \in {c \in [modo_lote : {"Individual", "Combinado"},
                         diarization : BOOLEAN,
                         export_zip : BOOLEAN,
                         segment_duration : 1..MaxWindow,
                         infracciones : TermConfigs,
                         coincidencia_parcial : BOOLEAN] :
                   c.infracciones = <<>> => c.coincidencia_parcial}
    /\ audio_files \in Batches(SeqsUpTo(FileNames, MaxFiles))
    /\ ffmpeg \in BOOLEAN
    /\ pc = "start" /\ idx = 0 /\ i = 0
    /\ session \in {DefaultSession, EarlierSession}
    /\ files_status = 0 /\ file_status = <<>>
    /\ infracciones_lote = <<>> /\ files_info = <<>> /\ generated_paths = <<>>
    /\ samplerate = 0 /\ total_duration = 0 /\ num_segments = 0 /\ diar = None
    /\ segments_done = <<>> /\ infracciones_encontradas = <<>> /\ segment_errors = 0
    /\ result = <<>>
    /\ clips = 0
    /\ progress_disk \in {[b \in FileBases |-> NoFile],
                          [b \in FileBases |-> IF b = "a" THEN StaleCheckpoint ELSE NoFile]}
    /\ txt_disk = [b \in FileBases |-> NoText]
    /\ xlsx_disk = [b \in FileBases |-> NoWorkbook]
    /\ l_txt = NoText /\ l_xlsx = NoWorkbook /\ docx_disk = {} /\ zip_disk = None
    /\ seg_log = <<>> /\ progress_log = <<>> /\ decode_log = <<>> /\ clips_made = 0
    /\ diar_log = "None" /\ last_write = "None"
    /\ clips_leaked = 0 /\ ckpt_kept = {} /\ lote_log = <<>>
    /\ tuples_left = MaxRunTuples /\ faults_left = MaxFaults

\* an external call fails and the exception leaves run_processing
Raise == faults_left > 0 /\ pc' = "raised"

\* an external call fails and the code recovers
Fault == faults_left > 0 /\ faults_left' = faults_left - 1

NoFault == UNCHANGED faults_left

audio_file == audio_files[idx + 1]

file_base == FileBase(audio_file)

\* runtime.ensure_ffmpeg: the path of a usable ffmpeg, None when there is none
ensure_ffmpeg == IF ffmpeg THEN <<"ffmpeg">> ELSE None

AfterChecksNoFfmpeg(ff, model) ==
    IF model = None THEN "stopped" ELSE "lote_init"

\* 120-126: where run_processing goes after ensure_ffmpeg and load_model_cached
AfterChecks(ff, model) ==
    IF ff = None THEN "returned"
    ELSE IF model = None THEN "stopped"
    ELSE "lote_init"

\* 113-132: the button, the ffmpeg precondition, the model, the reset of the session
Start ==
    /\ pc = "start"
    /\ \/ /\ audio_files = <<>>
          /\ pc' = "returned"
          /\ UNCHANGED session
       \/ /\ audio_files # <<>>
          /\ \E model \in {None, <<"whisper">>} :
                LET target == AfterChecks(ensure_ffmpeg, model)
                IN  /\ pc' = target
                    /\ session' = IF target = "lote_init" THEN DefaultSession ELSE session
    /\ UNCHANGED <<svars, fvars, invars, lote_log, rmvars, idx, i, files_status, file_status, batchvars, filevars,
                   diskvars, histvars>>

\* 158-162: the batch-wide targets of Combinado
LoteInit ==
    /\ pc = "lote_init"
    /\ IF cfg.modo_lote = "Combinado"
       THEN \/ /\ Raise                      \* ensure_excel_file raises
               /\ UNCHANGED <<l_xlsx, l_txt, generated_paths>>
            \/ /\ Raise                      \* open(L_TXT_PATH, "w") raises
               /\ l_xlsx' = ensure_excel_file(l_xlsx, "Transcripcion", LOTE_HEADERS)
               /\ UNCHANGED <<l_txt, generated_paths>>
            \/ /\ pc' = "read"
               /\ l_xlsx' = ensure_excel_file(l_xlsx, "Transcripcion", LOTE_HEADERS)
               /\ l_txt' = NewText(<<"Transcripcion consolidada ENACOM">>)
               /\ generated_paths' = generated_paths \o <<TxtPath(lote_base), XlsxPath(lote_base)>>
       ELSE /\ pc' = "read"
            /\ UNCHANGED <<l_xlsx, l_txt, generated_paths>>
    /\ UNCHANGED <<svars, fvars, invars, lote_log, rmvars, idx, i, session, files_status, file_status,
                   infracciones_lote, files_info, filevars,
                   clips, progress_disk, txt_disk, xlsx_disk, docx_disk, zip_disk, histvars>>

\* `continue` / the end of the body of `for idx, audio_file in enumerate(audio_files)`.
\* The locals of the file are dead from here on: every one of them is assigned
\* again before the next file reads it, so they are cleared.
NextFile ==
    /\ idx' = idx + 1
    /\ pc' = IF idx + 1 < Len(audio_files) THEN "read" ELSE "run_end"
    /\ i' = 0
    /\ samplerate' = 0 /\ total_duration' = 0 /\ num_segments' = 0 /\ diar' = None
    /\ segments_done' = <<>> /\ infracciones_encontradas' = <<>> /\ segment_errors' = 0
    /\ result' = <<>>
    /\ seg_log' = <<>> /\ progress_log' = <<>> /\ clips_made' = 0 /\ diar_log' = "None"
    /\ last_write' = "None"

SkipRest ==
    /\ idx' = idx + 1
    /\ pc' = "run_end"
    /\ i' = 0
    /\ samplerate' = 0 /\ total_duration' = 0 /\ num_segments' = 0 /\ diar' = None
    /\ segments_done' = <<>> /\ infracciones_encontradas' = <<>> /\ segment_errors' = 0
    /\ result' = <<>>
    /\ seg_log' = <<>> /\ progress_log' = <<>> /\ clips_made' = 0 /\ diar_log' = "None"
    /\ last_write' = "None"

\* 186: continue
SkipFile == NextFile

\* 171-189: sf.read; on failure the file is skipped
ReadAudio ==
    /\ pc = "read"
    /\ \/ /\ Fault
          /\ decode_log' = Append(decode_log, FALSE)
          /\ files_status' = idx + 1
          /\ SkipFile
       \/ \E nsamples \in 0..MaxSamples, rate \in {SampleRate} :
          /\ NoFault
          /\ decode_log' = Append(decode_log, TRUE)
          /\ samplerate' = rate
          /\ total_duration' = TotalDuration(nsamples, rate)
          /\ num_segments' = NumSegments(TotalDuration(nsamples, rate), rate, cfg.segment_duration)
          /\ pc' = "diarize"
          /\ UNCHANGED <<idx, i, files_status, diar, segments_done, infracciones_encontradas,
                         segment_errors, result, seg_log, progress_log, clips_made, diar_log,
                         last_write>>
    /\ UNCHANGED <<svars, fvars, invars, lote_log, rmvars, session, file_status, batchvars, diskvars, tuples_left>>

\* 191-203: the optional diarization
Diarize ==
    /\ pc = "diarize"
    /\ IF cfg.diarization
       THEN \/ Fault /\ diar' = None /\ diar_log' = "failed"   \* the import or the call raises
            \/ Fault /\ diar' = None /\ diar_log' = "failed"   \* diarize_audio returns None
            \/ \E turns \in DiarTurns : NoFault /\ diar' = turns /\ diar_log' = "turns"
       ELSE NoFault /\ diar' = None /\ diar_log' = "off"
    /\ pc' = "open_outputs"
    /\ UNCHANGED <<svars, fvars, invars, lote_log, rmvars, idx, i, session, files_status, file_status, batchvars,
                   samplerate, total_duration, num_segments, segments_done,
                   infracciones_encontradas, segment_errors, result,
                   diskvars, seg_log, progress_log, decode_log, clips_made, last_write,
                   tuples_left>>

LoopStartResumed(ckpt) ==
    [next_segment |-> ckpt.next_segment, segments_done |-> ckpt.segments_done]

\* 255, 265: segments_done = [] and range(num_segments); the file at
\* PROGRESS_PATH (ckpt) is not opened for reading anywhere
LoopStart(ckpt) == [next_segment |-> 0, segments_done |-> <<>>]

\* 234-263: the per-file targets, the section header of the batch-wide text,
\* the empty accumulators of the file
OpenOutputs ==
    /\ pc = "open_outputs"
    /\ LET xlsx1 == [xlsx_disk EXCEPT ![file_base] = ensure_excel_file(@, "Transcripcion", IND_HEADERS)]
           txt1 == [txt_disk EXCEPT ![file_base] = NewText(<<"Archivo", audio_file>>)]
       IN  \/ /\ Raise                       \* ensure_excel_file raises
              /\ UNCHANGED <<xlsx_disk, txt_disk, l_txt, generated_paths>>
           \/ /\ Raise                       \* open(TXT_PATH, "w") raises
              /\ xlsx_disk' = xlsx1
              /\ UNCHANGED <<txt_disk, l_txt, generated_paths>>
           \/ /\ cfg.modo_lote = "Combinado"
              /\ Raise                       \* open(L_TXT_PATH, "a") raises
              /\ xlsx_disk' = xlsx1 /\ txt_disk' = txt1
              /\ generated_paths' = generated_paths \o <<TxtPath(file_base), XlsxPath(file_base)>>
              /\ UNCHANGED l_txt
           \/ /\ pc' = "seg_begin"
              /\ xlsx_disk' = xlsx1 /\ txt_disk' = txt1
              /\ generated_paths' = generated_paths \o <<TxtPath(file_base), XlsxPath(file_base)>>
              /\ l_txt' = IF cfg.modo_lote = "Combinado"
                          THEN AppendText(l_txt, <<"ARCHIVO", audio_file>>) ELSE l_txt
    /\ segments_done' = LoopStart(progress_disk[file_base]).segments_done
    /\ i' = LoopStart(progress_disk[file_base]).next_segment
    /\ infracciones_encontradas' = <<>> /\ segment_errors' = 0
    /\ UNCHANGED <<svars, fvars, invars, lote_log, rmvars, idx, session, files_status, file_status,
                   infracciones_lote, files_info,
                   samplerate, total_duration, num_segments, diar, result,
                   clips, progress_disk, l_xlsx, docx_disk, zip_disk, histvars>>

\* start_sec and end_sec of the current segment, in samples
start_sec == StartSec(i, samplerate, cfg.segment_duration)

end_sec == EndSec(i, samplerate, cfg.segment_duration, total_duration)

PROGRESS_PATH == file_base

\* 269-270: seg_path = _mktemp_wav(); result = {}
SegBegin ==
    /\ pc = "seg_begin"
    /\ clips' = clips + 1
    /\ clips_made' = 1
    /\ result' = <<>>
    /\ pc' = "asr"
    /\ UNCHANGED <<svars, fvars, invars, lote_log, rmvars, idx, i, session, files_status, file_status, batchvars,
                   samplerate, total_duration, num_segments, diar, segments_done,
                   infracciones_encontradas, segment_errors,
                   progress_disk, txt_disk, xlsx_disk, l_txt, l_xlsx, docx_disk, zip_disk,
                   seg_log, progress_log, decode_log, diar_log, last_write, tuples_left,
                   faults_left>>

CheckpointThisSegment(next_segment, done) ==
    [file |-> "pickle", next_segment |-> next_segment - 1, segments_done |-> done]

\* pickle.dump({"next_segment": i + 1, "segments_done": segments_done}, f)
Checkpoint(next_segment, done) ==
    [file |-> "pickle", next_segment |-> next_segment, segments_done |-> done]

\* 286-290, 377-381: the attempt to write the checkpoint; a failure is swallowed
\* (spent: the recovered failures of the same step before it)
WriteProgress(payload, spent) ==
    \/ /\ faults_left >= spent
       /\ progress_disk' = [progress_disk EXCEPT ![PROGRESS_PATH] = payload]
       /\ progress_log' = Append(progress_log, payload)
       /\ last_write' = "ok"
       /\ faults_left' = faults_left - spent
    \/ /\ faults_left > spent                                 \* open(..., "wb") raises
       /\ faults_left' = faults_left - spent - 1
       /\ last_write' = "failed"
       /\ UNCHANGED <<progress_disk, progress_log>>
    \/ /\ faults_left > spent                                 \* pickle.dump raises
       /\ faults_left' = faults_left - spent - 1
       /\ last_write' = "failed"
       /\ progress_disk' = [progress_disk EXCEPT ![PROGRESS_PATH] = Truncated]
       /\ UNCHANGED progress_log

KeepClip(n) == n

\* 292-296: finally: os.remove(seg_path)
RemoveClip(n) == n - 1

ErrorsLost(n) == n

\* 284: segment_errors += 1
ErrorsAfterFailure(n) == n + 1

\* 272-296: the clip is written and transcribed; except; finally
\* (removed: whether os.remove of the clip succeeds; its failure is swallowed)
Asr ==
    /\ pc = "asr"
    /\ \E removed \in BOOLEAN :
          LET spent == IF removed THEN 0 ELSE 1
          IN  /\ \/ /\ \E failure \in {"sf.write", "model.transcribe"} :
                          seg_log' = Append(seg_log, [failed |-> TRUE, tuples |-> <<>>])
                    /\ segment_errors' = ErrorsAfterFailure(segment_errors)
                    /\ WriteProgress(Checkpoint(i + 1, segments_done), spent + 1)
                    /\ UNCHANGED <<result, tuples_left>>
                 \/ /\ \E tuples \in SeqsUpTo(EngineTuples, Min(MaxTuples, tuples_left)) :
                          /\ result' = tuples
                          /\ seg_log' = Append(seg_log, [failed |-> FALSE, tuples |-> tuples])
                          /\ tuples_left' = tuples_left - Len(tuples)
                    /\ faults_left >= spent
                    /\ faults_left' = faults_left - spent
                    /\ UNCHANGED <<segment_errors, progress_disk, progress_log, last_write>>
              /\ clips' = IF removed THEN RemoveClip(clips) ELSE clips
              /\ clips_leaked' = clips_leaked + spent
    /\ pc' = "emit"
    /\ UNCHANGED <<svars, fvars, invars, lote_log, ckpt_kept, idx, i, session, files_status, file_status,
                   batchvars,
                   samplerate, total_duration, num_segments, diar, segments_done,
                   infracciones_encontradas,
                   txt_disk, xlsx_disk, l_txt, l_xlsx, docx_disk, zip_disk,
                   decode_log, clips_made, diar_log>>

EventUntrimmed(s, seg_start, turns) ==
    [start |-> s.start + seg_start,
     end |-> s.end + seg_start,
     text |-> s.text,
     speaker |-> SpeakerFor((s.start + seg_start) + (s.end + seg_start), turns)]

\* 299-308: the event of one tuple, in absolute time
Event(s, seg_start, turns) ==
    [start |-> s.start + seg_start,
     end |-> s.end + seg_start,
     text |-> Strip(s.text),
     speaker |-> SpeakerFor((s.start + seg_start) + (s.end + seg_start), turns)]

\* 336-337: ini_h, fin_h
IniH(ev) == hhmmss(IntSec(ev.start, samplerate))

FinH(ev) == hhmmss(IntSec(ev.end, samplerate))

\* 339-342: the transcript line
Line(ev) == <<"line", IniH(ev), FinH(ev), ev.speaker, ev.text>>

NuevosUnseen(ev) ==
    LET found == detectar_infracciones_en_texto(audio_file, ev.text, IniH(ev), FinH(ev),
                                                cfg.infracciones, cfg.coincidencia_parcial)
        all == [k \in DOMAIN found |->
                   [archivo |-> found[k].archivo, termino |-> found[k].termino,
                    inicio |-> found[k].inicio, fin |-> found[k].fin, texto |-> found[k].texto,
                    speaker |-> ev.speaker]]
        Unseen(inf) == \A j \in DOMAIN infracciones_encontradas :
                          \/ infracciones_encontradas[j].termino # inf.termino
                          \/ infracciones_encontradas[j].texto # inf.texto
    IN  SelectSeq(all, Unseen)

\* 365-375: the infractions of one event, with its speaker
Nuevos(ev) ==
    LET found == detectar_infracciones_en_texto(audio_file, ev.text, IniH(ev), FinH(ev),
                                                cfg.infracciones, cfg.coincidencia_parcial)
    IN  [k \in DOMAIN found |->
            [archivo |-> found[k].archivo, termino |-> found[k].termino,
             inicio |-> found[k].inicio, fin |-> found[k].fin, texto |-> found[k].texto,
             speaker |-> ev.speaker]]

PrependEvent(done, ev) == <<ev>> \o done

\* 308: segments_done.append(...)
AppendEvent(done, ev) == Append(done, ev)

\* 298-375: one turn of `for s in result.get("segments", [])`
Emit ==
    /\ pc = "emit"
    /\ result # <<>>
    /\ result' = Tail(result)
    /\ LET ev == Event(Head(result), start_sec, diar)
           combinado == cfg.modo_lote = "Combinado"
           txt1 == [txt_disk EXCEPT ![file_base] = AppendText(@, Line(ev))]
           xlsx1 == [xlsx_disk EXCEPT ![file_base] =
                        append_to_excel(@, <<IniH(ev), FinH(ev), ev.speaker, ev.text>>, IND_HEADERS)]
           l_txt1 == AppendText(l_txt, Line(ev))
           l_xlsx1 == append_to_excel(l_xlsx,
                          <<audio_file, IniH(ev), FinH(ev), ev.speaker, ev.text>>, LOTE_HEADERS)
       IN  IF ev.text = <<>>
           THEN /\ UNCHANGED <<pc, segments_done, infracciones_encontradas,
                               txt_disk, xlsx_disk, l_txt, l_xlsx>>
           ELSE /\ segments_done' = AppendEvent(segments_done, ev)
                /\ \/ /\ Raise                        \* open(TXT_PATH, "a") raises
                      /\ UNCHANGED <<txt_disk, xlsx_disk, l_txt, l_xlsx, infracciones_encontradas>>
                   \/ /\ Raise                        \* append_to_excel(EXCEL_PATH) raises
                      /\ txt_disk' = txt1
                      /\ UNCHANGED <<xlsx_disk, l_txt, l_xlsx, infracciones_encontradas>>
                   \/ /\ combinado
                      /\ Raise                        \* open(L_TXT_PATH, "a") raises
                      /\ txt_disk' = txt1 /\ xlsx_disk' = xlsx1
                      /\ UNCHANGED <<l_txt, l_xlsx, infracciones_encontradas>>
                   \/ /\ combinado
                      /\ Raise                        \* append_to_excel(L_XLSX_PATH) raises
                      /\ txt_disk' = txt1 /\ xlsx_disk' = xlsx1 /\ l_txt' = l_txt1
                      /\ UNCHANGED <<l_xlsx, infracciones_encontradas>>
                   \/ /\ UNCHANGED pc
                      /\ txt_disk' = txt1 /\ xlsx_disk' = xlsx1
                      /\ l_txt' = IF combinado THEN l_txt1 ELSE l_txt
                      /\ l_xlsx' = IF combinado THEN l_xlsx1 ELSE l_xlsx
                      /\ infracciones_encontradas' = infracciones_encontradas \o Nuevos(ev)
    /\ UNCHANGED <<svars, fvars, invars, lote_log, rmvars, idx, i, session, files_status, file_status, batchvars,
                   samplerate, total_duration, num_segments, diar, segment_errors,
                   clips, progress_disk, docx_disk, zip_disk, histvars>>

NextSegmentRetry(k, written) == IF written = "ok" THEN k + 1 ELSE k

\* 265, 377-381: the next value of i; the outcome of the write (written) is
\* swallowed by `except Exception: pass`
NextSegment(k, written) == k + 1

\* 377-393: the checkpoint after the segment, then the next turn of
\* `for i in range(num_segments)`
SegEnd ==
    /\ pc = "emit"
    /\ result = <<>>
    /\ WriteProgress(Checkpoint(i + 1, segments_done), 0)
    /\ i' = NextSegment(i, last_write')
    /\ pc' = IF NextSegment(i, last_write') < num_segments THEN "seg_begin" ELSE "file_close"
    /\ clips_made' = 0
    /\ UNCHANGED <<svars, fvars, invars, lote_log, rmvars, idx, session, files_status, file_status, batchvars,
                   filevars, clips, txt_disk, xlsx_disk, l_txt, l_xlsx, docx_disk, zip_disk,
                   seg_log, decode_log, diar_log, tuples_left>>

FileMessageAnyError(done, errors) ==
    IF errors > 0 THEN "error: no se obtuvo texto"
    ELSE "success: Transcripcion finalizada"

\* 407-410: the message shown for the finished file
FileMessage(done, errors) ==
    IF Len(done) = 0 /\ errors > 0 THEN "error: no se obtuvo texto"
    ELSE "success: Transcripcion finalizada"

KeepProgress(disk, path) == disk

\* 399-402: os.remove(PROGRESS_PATH)
RemoveProgress(disk, path) == [disk EXCEPT ![path] = NoFile]

\* 395-410: the temporary copy and the checkpoint are removed, the progress
\* and the message of the file are shown
FileClose ==
    /\ pc = "file_close"
    /\ \/ /\ NoFault
          /\ progress_disk' = RemoveProgress(progress_disk, PROGRESS_PATH)
          /\ ckpt_kept' = ckpt_kept \ {PROGRESS_PATH}
       \/ /\ progress_disk[PROGRESS_PATH] # NoFile          \* os.remove raises
          /\ Fault
          /\ ckpt_kept' = ckpt_kept \cup {PROGRESS_PATH}
          /\ UNCHANGED progress_disk
    /\ files_status' = idx + 1
    /\ file_status' = Append(file_status, FileMessage(segments_done, segment_errors))
    /\ pc' = "file_export"
    /\ UNCHANGED <<svars, fvars, invars, lote_log, clips_leaked, idx, i, session, batchvars, filevars,
                   clips, txt_disk, xlsx_disk, l_txt, l_xlsx, docx_disk, zip_disk,
                   seg_log, progress_log, decode_log, clips_made, diar_log, last_write,
                   tuples_left>>

\* 456-464: the entry of st.session_state.resultados
Resultado(word_path) ==
    [archivo |-> audio_file,
     file_base |-> file_base,
     txt |-> IF txt_disk[file_base].exists THEN TxtPath(file_base) ELSE None,
     xlsx |-> IF xlsx_disk[file_base].exists THEN XlsxPath(file_base) ELSE None,
     docx |-> word_path]

\* 412-464: the infractions sheet, the individual report, the batch accumulators
FileExport ==
    /\ pc = "file_export"
    /\ \/ /\ Raise                                   \* write_infracciones_excel raises
          /\ UNCHANGED <<lote_log, idx, i, xlsx_disk, docx_disk, generated_paths, files_info,
                         infracciones_lote, session, filevars,
                         seg_log, progress_log, clips_made, diar_log, last_write, faults_left>>
       \/ /\ xlsx_disk' = [xlsx_disk EXCEPT ![file_base] =
                              write_infracciones_excel(@, infracciones_encontradas)]
          /\ \E word_ok \in IF cfg.modo_lote = "Individual" THEN BOOLEAN ELSE {FALSE} :
                LET made == cfg.modo_lote = "Individual" /\ word_ok
                IN  /\ IF cfg.modo_lote = "Individual" /\ ~word_ok   \* generar_informe_word raises
                       THEN Fault ELSE NoFault
                    /\ docx_disk' = IF made THEN docx_disk \cup {DocxPath(file_base)} ELSE docx_disk
                    /\ generated_paths' = IF made THEN Append(generated_paths, DocxPath(file_base))
                                          ELSE generated_paths
                    /\ session' = [session EXCEPT !.resultados =
                           Append(@, Resultado(IF made THEN DocxPath(file_base) ELSE None))]
          /\ files_info' = Append(files_info,
                 [archivo |-> audio_file, txt_path |-> TxtPath(file_base)])
          /\ infracciones_lote' = infracciones_lote \o infracciones_encontradas
          /\ lote_log' = Append(lote_log,
                 [archivo |-> audio_file, samplerate |-> samplerate, events |-> segments_done,
                  infracciones |-> Len(infracciones_encontradas)])
          /\ NextFile
    /\ UNCHANGED <<svars, fvars, invars, rmvars, files_status, file_status,
                   clips, progress_disk, txt_disk, l_txt, l_xlsx, zip_disk,
                   decode_log, tuples_left>>

\* 519: [p for p in generated_paths if p and os.path.exists(p)]
RECURSIVE Existing(_, _)
Existing(paths, docxs) ==
    IF paths = <<>> THEN <<>>
    ELSE IF PathExists(Head(paths), docxs) THEN <<Head(paths)>> \o Existing(Tail(paths), docxs)
         ELSE Existing(Tail(paths), docxs)

RECURSIVE DedupeLast(_)
DedupeLast(paths) ==
    IF paths = <<>> THEN <<>>
    ELSE LET rest == DedupeLast(Tail(paths))
         IN  IF \E k \in DOMAIN rest : rest[k] = Head(paths) THEN rest
             ELSE <<Head(paths)>> \o rest

\* 520: list(dict.fromkeys(generated_paths))
RECURSIVE Dedupe(_)
Dedupe(paths) ==
    IF paths = <<>> THEN <<>>
    ELSE LET front == Dedupe(SubSeq(paths, 1, Len(paths) - 1))
             last == paths[Len(paths)]
         IN  IF \E k \in DOMAIN front : front[k] = last THEN front ELSE Append(front, last)

\* processing._make_run_zip: meta.json, then every path that exists
make_run_zip(paths, docxs) == << <<"meta.json">> >> \o Existing(paths, docxs)

\* 467: len({i.get("archivo") for i in infracciones_lote})
ArchivosConInf(infs) == Cardinality({infs[k].archivo : k \in DOMAIN infs})

\* 469-481 (without the texts "generado", "model_size", "lang" and
\* "total_duration_hhmmss", which nothing but the report reads)
RunMeta ==
    [modo |-> cfg.modo_lote,
     segment_duration |-> cfg.segment_duration,
     total_files |-> Len(files_info),
     infracciones_total |-> Len(infracciones_lote),
     archivos_con_infracciones |-> ArchivosConInf(infracciones_lote),
     diarization |-> cfg.diarization,
     zip |-> cfg.export_zip]

\* 508-514
LoteResult(word_path_lote) ==
    [archivo |-> "LOTE",
     file_base |-> lote_base,
     txt |-> IF l_txt.exists THEN TxtPath(lote_base) ELSE None,
     xlsx |-> IF l_xlsx.exists THEN XlsxPath(lote_base) ELSE None,
     docx |-> word_path_lote]

\* 466-526: the run metadata, the batch-wide exports of Combinado, the package
RunEnd ==
    /\ pc = "run_end"
    /\ LET combinado == cfg.modo_lote = "Combinado" /\ audio_files # <<>>
       IN  \/ /\ combinado
              /\ Raise                               \* write_infracciones_excel raises
              /\ session' = [session EXCEPT !.run_meta = <<RunMeta>>]
              /\ UNCHANGED <<l_xlsx, docx_disk, generated_paths, zip_disk, faults_left>>
           \/ \E word_ok \in IF combinado THEN BOOLEAN ELSE {FALSE},
                 zip_ok \in IF cfg.export_zip THEN BOOLEAN ELSE {FALSE} :
                LET made == combinado /\ word_ok
                    failures == (IF combinado /\ ~word_ok THEN 1 ELSE 0)
                                + (IF cfg.export_zip /\ ~zip_ok THEN 1 ELSE 0)
                    docxs == IF made THEN docx_disk \cup {DocxPath(lote_base)} ELSE docx_disk
                    paths0 == IF made THEN Append(generated_paths, DocxPath(lote_base))
                              ELSE generated_paths
                    paths == IF cfg.export_zip THEN Dedupe(Existing(paths0, docxs)) ELSE paths0
                    zipped == cfg.export_zip /\ zip_ok
                IN  /\ faults_left >= failures
                    /\ faults_left' = faults_left - failures
                    /\ l_xlsx' = IF combinado
                                 THEN write_infracciones_excel(l_xlsx, infracciones_lote)
                                 ELSE l_xlsx
                    /\ docx_disk' = docxs
                    /\ generated_paths' = paths
                    /\ zip_disk' = IF zipped THEN make_run_zip(paths, docxs) ELSE zip_disk
                    /\ session' = [session EXCEPT
                           !.run_meta = <<RunMeta>>,
                           !.lote_result = IF combinado
                                           THEN <<LoteResult(IF made THEN DocxPath(lote_base) ELSE None)>>
                                           ELSE @,
                           !.run_package = IF zipped THEN <<"corrida.zip">> ELSE @,
                           !.procesado = TRUE]
                    /\ pc' = "done"
    /\ UNCHANGED <<svars, fvars, invars, lote_log, rmvars, idx, i, files_status, file_status,
                   infracciones_lote, files_info, filevars,
                   clips, progress_disk, txt_disk, xlsx_disk, l_txt,
                   seg_log, progress_log, decode_log, clips_made, diar_log, last_write,
                   tuples_left>>

Next ==
    \/ Start
    \/ LoteInit
    \/ ReadAudio
    \/ Diarize
    \/ OpenOutputs
    \/ SegBegin
    \/ Asr
    \/ Emit
    \/ SegEnd
    \/ FileClose
    \/ FileExport
    \/ RunEnd

Spec == Init /\ [][Next]_vars

\* ------------------------------------------------------------------ SegSpec
\* The loop `for i in range(num_segments)` of processing.py 265-267, alone.

SegInit ==
    /\ seg_n \in 0..SegMaxSamples
    /\ seg_rate \in 1..SegMaxRate
    /\ seg_w \in 1..SegMaxWindow
    /\ seg_i = 0
    /\ seg_list = <<>>
    /\ FnIdle
    /\ PipeIdle

SegStep ==
    /\ seg_i < NumSegments(TotalDuration(seg_n, seg_rate), seg_rate, seg_w)
    /\ seg_list' = Append(seg_list,
           [start_sec |-> StartSec(seg_i, seg_rate, seg_w),
            end_sec |-> EndSec(seg_i, seg_rate, seg_w, TotalDuration(seg_n, seg_rate))])
    /\ seg_i' = seg_i + 1
    /\ UNCHANGED <<seg_n, seg_rate, seg_w>>
    /\ UNCHANGED <<fvars, pvars>>

SegNext == SegStep

SegSpec == SegInit /\ [][SegNext]_vars

SegLoopDone ==
    seg_i = NumSegments(TotalDuration(seg_n, seg_rate), seg_rate, seg_w)

\* C1: for every duration d >= 0 and window w > 0 the segment loop produces
\* exactly max(1, ceil(d/w)) segments; segment i is [i*w, min((i+1)*w, d)]: the
\* first starts at 0, consecutive ones are contiguous and do not overlap, the
\* last ends exactly at d; d = 0 gives exactly one zero-length segment.
\* (d = seg_n / seg_rate seconds, w = seg_w seconds, compared in samples.)
C1_SegmentsPartition ==
    SegLoopDone =>
        LET d == seg_n
            W == seg_w * seg_rate
            cnt == IF d = 0 THEN 1
                   ELSE CHOOSE k \in 1..(d + 1) : (k - 1) * W < d /\ d <= k * W
        IN  /\ Len(seg_list) = cnt
            /\ seg_list[1].start_sec = 0
            /\ seg_list[Len(seg_list)].end_sec = d
            /\ \A k \in 1..Len(seg_list) :
                   /\ seg_list[k].start_sec = (k - 1) * W
                   /\ seg_list[k].end_sec = IF k * W <= d THEN k * W ELSE d
                   /\ seg_list[k].start_sec <= seg_list[k].end_sec
            /\ \A k \in 1..(Len(seg_list) - 1) :
                   seg_list[k].end_sec = seg_list[k + 1].start_sec
            /\ (d = 0 => seg_list = <<[start_sec |-> 0, end_sec |-> 0]>>)

\* 95 s at a 30 s window: [0,30) [30,60) [60,90) [90,95)
C1_Witness ==
    /\ seg_n = 95 /\ seg_rate = 1 /\ seg_w = 30
    /\ seg_list = << [start_sec |-> 0, end_sec |-> 30], [start_sec |-> 30, end_sec |-> 60],
                     [start_sec |-> 60, end_sec |-> 90], [start_sec |-> 90, end_sec |-> 95] >>

\* ------------------------------------------------------------------ Spec
\* What the run of a batch guarantees.

IsPrefix(p, q) == Len(p) <= Len(q) /\ SubSeq(q, 1, Len(p)) = p

\* the file whose body the loop is in
InFile == idx < Len(audio_files)

\* an event without its speaker
Timed(ev) == [start |-> ev.start, end |-> ev.end, text |-> ev.text]

TimedAll(events) == [k \in DOMAIN events |-> Timed(events[k])]

\* the events the tuples of one clip stand for, the clip starting at seg_start:
\* the blank ones dropped, the others moved to absolute time, in the order given
RECURSIVE ClipEvents(_, _)
ClipEvents(tuples, seg_start) ==
    IF tuples = <<>> THEN <<>>
    ELSE LET s == Head(tuples)
             rest == ClipEvents(Tail(tuples), seg_start)
         IN  IF Strip(s.text) = <<>> THEN rest
             ELSE << [start |-> seg_start + s.start, end |-> seg_start + s.end,
                      text |-> Strip(s.text)] >> \o rest

\* the events of the segments log[1..k], the failed ones giving none
RECURSIVE LogEvents(_, _, _)
LogEvents(log, k, window) ==
    IF k = 0 THEN <<>>
    ELSE LogEvents(log, k - 1, window)
         \o (IF log[k].failed THEN <<>> ELSE ClipEvents(log[k].tuples, (k - 1) * window))

FailedCount(log) == Cardinality({k \in DOMAIN log : log[k].failed})

\* the window of the current file, in samples
WindowSamples == cfg.segment_duration * samplerate

\* the names of the files among the first n whose decoding succeeded
RECURSIVE DecodedNames(_)
DecodedNames(n) ==
    IF n = 0 THEN <<>>
    ELSE DecodedNames(n - 1) \o (IF decode_log[n] THEN <<audio_files[n]>> ELSE <<>>)

\* C2: for every behaviour of the engine the events of a file are produced in
\* non-decreasing start time.
C2_NonDecreasingStart ==
    \A k \in 1..(Len(segments_done) - 1) :
        segments_done[k].start <= segments_done[k + 1].start

\* C3: a segment whose transcription fails adds no event and exactly one to the
\* error count, and the loop goes on: between two iterations and at the end of
\* the file the count equals the number of failed segments, the events are those
\* of the segments that did not fail, in absolute time and in segment order, and
\* the loop ends only after every segment was tried.
C3_SegmentFailureIsolated ==
    (pc \in {"seg_begin", "file_close"}) =>
        /\ Len(seg_log) = i
        /\ segment_errors = FailedCount(seg_log)
        /\ TimedAll(segments_done) = LogEvents(seg_log, Len(seg_log), WindowSamples)
        /\ (pc = "file_close" => i = num_segments)

\* the first segment failed, the second one gave an event, the file is at its end
C3_Witness ==
    /\ pc = "file_close"
    /\ Len(seg_log) = 2 /\ seg_log[1].failed /\ ~seg_log[2].failed
    /\ segment_errors = 1
    /\ Len(segments_done) = 1 /\ segments_done[1].start >= WindowSamples

\* C4: no exception of an external call or of an exporter leaves the run.
C4_NoExceptionPropagates == pc # "raised"

DecodeFails == pc = "read" /\ decode_log' = Append(decode_log, FALSE)

\* C5: a file that cannot be decoded is the only thing its failure aborts: the
\* step leaves every output, every accumulator and the session as they were,
\* the files progress advances by one and the loop goes to the next file; at
\* the end of the run every file was tried and the results are those of the
\* files that were decoded, in order.
C5_DecodeFailureSkipsFile ==
    /\ [][DecodeFails =>
            /\ UNCHANGED <<session, file_status, infracciones_lote, files_info, generated_paths,
                           txt_disk, xlsx_disk, l_txt, l_xlsx, docx_disk, zip_disk,
                           progress_disk, clips>>
            /\ segments_done' = <<>> /\ infracciones_encontradas' = <<>>
            /\ files_status' = idx + 1
            /\ idx' = idx + 1
            /\ pc' = IF idx + 1 < Len(audio_files) THEN "read" ELSE "run_end"]_vars
    /\ [](pc = "done" =>
            /\ Len(decode_log) = Len(audio_files)
            /\ files_status = Len(audio_files)
            /\ [k \in DOMAIN session.resultados |-> session.resultados[k].archivo]
                   = DecodedNames(Len(audio_files))
            /\ [k \in DOMAIN files_info |-> files_info[k].archivo]
                   = DecodedNames(Len(audio_files)))

\* the first of two files was not decoded, the second was, the run ended
C5_Witness ==
    /\ pc = "done"
    /\ decode_log = <<FALSE, TRUE>>
    /\ Len(session.resultados) = 1
    /\ session.resultados[1].archivo = audio_files[2]

\* C6: when the diarization was asked for and failed, every event and every
\* infraction of the file has the empty speaker, in the file's accumulators and
\* in the lines of its transcript, and the file goes through all its segments.
C6_DiarizationFailureEmptySpeaker ==
    diar_log = "failed" =>
        /\ \A k \in DOMAIN segments_done : segments_done[k].speaker = ""
        /\ \A k \in DOMAIN infracciones_encontradas : infracciones_encontradas[k].speaker = ""
        /\ (pc \in {"seg_begin", "asr", "emit", "file_close", "file_export"} =>
                \A k \in 2..Len(txt_disk[file_base].lines) : txt_disk[file_base].lines[k][4] = "")
        /\ (pc \in {"file_close", "file_export"} => Len(seg_log) = num_segments)

\* the diarization failed; the file ended with an event and an infraction
C6_Witness ==
    /\ diar_log = "failed"
    /\ pc = "file_export"
    /\ segments_done # <<>>
    /\ infracciones_encontradas # <<>>

\* C7: after iteration i - 1 ended and the write of its checkpoint succeeded,
\* the checkpoint on disk holds next_segment = i and exactly the events of the
\* segments 0..i-1, whether their transcription succeeded or failed.
C7_CheckpointAfterIteration ==
    (pc \in {"seg_begin", "file_close"} /\ i >= 1 /\ last_write = "ok") =>
        /\ progress_disk[PROGRESS_PATH].file = "pickle"
        /\ progress_disk[PROGRESS_PATH].next_segment = i
        /\ progress_disk[PROGRESS_PATH].segments_done = segments_done
        /\ TimedAll(progress_disk[PROGRESS_PATH].segments_done)
               = LogEvents(seg_log, i, WindowSamples)

\* two iterations ended, one failed and one with an event; the checkpoint was written
C7_Witness ==
    /\ pc = "file_close" /\ i = 2 /\ last_write = "ok"
    /\ seg_log[1].failed /\ ~seg_log[2].failed
    /\ progress_disk[PROGRESS_PATH].next_segment = 2
    /\ Len(progress_disk[PROGRESS_PATH].segments_done) = 1

\* C8: the events of every checkpoint written for a file are a prefix of the
\* events of the file, while it runs and when it has ended.
C8_CheckpointIsPrefix ==
    \A k \in DOMAIN progress_log : IsPrefix(progress_log[k].segments_done, segments_done)

\* the file ended with two events; a checkpoint holds the first of them only
C8_Witness ==
    /\ pc = "file_close"
    /\ Len(segments_done) = 2
    /\ \E k \in DOMAIN progress_log : Len(progress_log[k].segments_done) = 1

SpkTurns ==
    SeqsUpTo([start : 0..MaxTime, end : 0..MaxTime, speaker : {"SPEAKER_00", "SPEAKER_01"}],
             MaxTurns)

SpkInit ==
    /\ args \in [fn : {"_speaker_for"}, t2 : 0..(2 * MaxTime), diar : SpkTurns]
    /\ ret = None
    /\ SegIdle
    /\ PipeIdle

SpkCall ==
    /\ ret = None
    /\ ret' = <<SpeakerFor(args.t2, args.diar)>>
    /\ UNCHANGED <<args, svars, pvars>>

SpkNext == SpkCall

SpkSpec == SpkInit /\ [][SpkNext]_vars

\* the turns of diar that contain the time t2 / 2, both ends included
TurnsAt(t2, turns) ==
    {k \in DOMAIN turns : 2 * turns[k].start <= t2 /\ t2 <= 2 * turns[k].end}

\* C11: _speaker_for returns the speaker of the first turn, in the order of the
\* list, with start <= t <= end, so that of the earlier one of two overlapping
\* turns; it returns "" when no turn contains t and when there are no turns.
C11_FirstTurnWins ==
    ret # None =>
        LET hits == TurnsAt(args.t2, args.diar)
        IN  ret[1] = IF hits = {} THEN ""
                     ELSE args.diar[CHOOSE k \in hits : \A j \in hits : k <= j].speaker

\* t = 1 is the end of the first turn and the start of the second: the first wins
C11_Witness ==
    /\ ret = <<"SPEAKER_01">>
    /\ args.t2 = 2
    /\ args.diar = << [start |-> 0, end |-> 1, speaker |-> "SPEAKER_01"],
                      [start |-> 1, end |-> 2, speaker |-> "SPEAKER_00"] >>

\* ------------------------------------------------------------------ MatchSpec
\* infracciones.detectar_infracciones_en_texto alone, one configured term
\* against one text.

\* letters in both cases, a character that is not of a word, a blank
TextChars == {"a", "A", "b", "!", " "}

TermChars == {"a", "A", "!", " "}

MatchInit ==
    /\ args \in [fn : {"detectar_infracciones_en_texto"},
                 termino : SeqsUpTo(TermChars, MaxTermLen),
                 texto : SeqsUpTo(TextChars, MaxTextLen),
                 coincidencia_parcial : BOOLEAN]
    /\ ret = None
    /\ SegIdle
    /\ PipeIdle

MatchCall ==
    /\ ret = None
    /\ ret' = << detectar_infracciones_en_texto("a.wav", args.texto, <<0, 0, 0, 0>>,
                     <<0, 0, 0, 1>>, << [termino |-> args.termino] >>,
                     args.coincidencia_parcial) >>
    /\ UNCHANGED <<args, svars, pvars>>

MatchNext == MatchCall

MatchSpec == MatchInit /\ [][MatchNext]_vars

\* term occurs in texto at offset p, the case of the letters aside
OccursAt(term, texto, p) ==
    /\ p + Len(term) <= Len(texto)
    /\ \A j \in 1..Len(term) : LowerChar(texto[p + j]) = LowerChar(term[j])

\* the occurrence at offset p is not a part of a larger word
StandsAlone(term, texto, p) ==
    /\ (p = 0 \/ texto[p] \notin WordChars)
    /\ (p + Len(term) = Len(texto) \/ texto[p + Len(term) + 1] \notin WordChars)

\* C12: a blank term never matches; a term that is not blank matches, with
\* partial = true, iff it is a substring of the text, the case aside, and with
\* partial = false iff it occurs, the case aside, as a whole word, not as a part
\* of a larger word.
C12_TermMatching ==
    ret # None =>
        LET term == Strip(args.termino)
            offsets == 0..Len(args.texto)
        IN  (ret[1] # <<>>) <=>
                /\ term # <<>>
                /\ IF args.coincidencia_parcial
                   THEN \E p \in offsets : OccursAt(term, args.texto, p)
                   ELSE \E p \in offsets : /\ OccursAt(term, args.texto, p)
                                           /\ StandsAlone(term, args.texto, p)

\* ------------------------------------------------------------------ Spec
\* The infractions of a file.

\* the records of the event ev for the first k configured terms: one for each
\* term that matches, in the order of the configuration
RECURSIVE ScanEvent(_, _)
ScanEvent(ev, k) ==
    IF k = 0 THEN <<>>
    ELSE LET termino == cfg.infracciones[k].termino
         IN  ScanEvent(ev, k - 1)
             \o (IF termino # <<>> /\ TermMatches(termino, ev.text, cfg.coincidencia_parcial)
                 THEN << [archivo |-> audio_file, termino |-> termino,
                          inicio |-> hhmmss(ev.start \div samplerate),
                          fin |-> hhmmss(ev.end \div samplerate),
                          texto |-> ev.text, speaker |-> ev.speaker] >>
                 ELSE <<>>)

\* the records of the events events[1..n], event after event
RECURSIVE ScanEvents(_, _)
ScanEvents(events, n) ==
    IF n = 0 THEN <<>>
    ELSE ScanEvents(events, n - 1) \o ScanEvent(events[n], Len(cfg.infracciones))

\* C13: the infractions of a file are the records of its events, event after
\* event: for each event one record per configured term that matches it, in the
\* order of the configuration, with the term, the whole text of the event, its
\* times and its speaker; nothing is dropped when two events give equal records.
C13_InfractionsPerEvent ==
    (pc \in {"seg_begin", "asr", "emit", "file_close", "file_export"}) =>
        infracciones_encontradas = ScanEvents(segments_done, Len(segments_done))

\* two events with the same text, each matched by both terms: four records
C13_Witness ==
    /\ pc = "file_close"
    /\ Len(segments_done) = 2
    /\ segments_done[1].text = segments_done[2].text
    /\ Len(infracciones_encontradas) = 4
    /\ infracciones_encontradas[1].termino = <<"b">>
    /\ infracciones_encontradas[2].termino = <<"a">>

\* ------------------------------------------------------------------ Spec
\* The batch-wide transcript and workbook of Combinado.

InSegments == pc \in {"seg_begin", "asr", "emit", "file_close", "file_export"}

\* the line and the row of an event of a file decoded at the given rate
LineOf(ev, rate) ==
    <<"line", hhmmss(ev.start \div rate), hhmmss(ev.end \div rate), ev.speaker, ev.text>>

RowOf(archivo, ev, rate) ==
    <<archivo, hhmmss(ev.start \div rate), hhmmss(ev.end \div rate), ev.speaker, ev.text>>

\* the section of one file in the batch-wide text: its header, then its events
SectionOf(archivo, events, rate) ==
    << <<"ARCHIVO", archivo>> >> \o [k \in DOMAIN events |-> LineOf(events[k], rate)]

RowsOf(archivo, events, rate) == [k \in DOMAIN events |-> RowOf(archivo, events[k], rate)]

\* the sections and rows of the files log[1..n], file after file
RECURSIVE SectionsOf(_, _)
SectionsOf(log, n) ==
    IF n = 0 THEN <<>>
    ELSE SectionsOf(log, n - 1) \o SectionOf(log[n].archivo, log[n].events, log[n].samplerate)

RECURSIVE AllRowsOf(_, _)
AllRowsOf(log, n) ==
    IF n = 0 THEN <<>>
    ELSE AllRowsOf(log, n - 1) \o RowsOf(log[n].archivo, log[n].events, log[n].samplerate)

\* C14: in Combinado the batch-wide text and the batch-wide workbook hold the
\* events of the decoded files in the order the files were processed and, within
\* a file, in the order of its events: all of a file before any of the next, the
\* file being processed last; a file that was not decoded adds nothing.
C14_CombinedOrder ==
    (cfg.modo_lote = "Combinado" /\ pc \in {"read", "run_end", "done"} \cup
                                            {"seg_begin", "asr", "emit", "file_close", "file_export"}) =>
        LET n == Len(lote_log)
            current == IF InSegments THEN SectionOf(audio_file, segments_done, samplerate)
                       ELSE <<>>
            rows == IF InSegments THEN RowsOf(audio_file, segments_done, samplerate) ELSE <<>>
        IN  /\ Tail(l_txt.lines) = SectionsOf(lote_log, n) \o current
            /\ Tail(l_xlsx.Transcripcion) = AllRowsOf(lote_log, n) \o rows
            /\ (~InSegments =>
                    [k \in 1..n |-> lote_log[k].archivo] = DecodedNames(Len(decode_log)))

\* two files with one event each, the event of the second file earlier in its
\* file than the event of the first: the first file's event stands first
C14_Witness ==
    /\ cfg.modo_lote = "Combinado" /\ pc = "done"
    /\ Len(lote_log) = 2
    /\ Len(lote_log[1].events) = 1 /\ Len(lote_log[2].events) = 1
    /\ lote_log[1].events[1].start > lote_log[2].events[1].start
    /\ Len(l_xlsx.Transcripcion) = 3

\* ------------------------------------------------------------------ Spec
\* The counts of the run metadata.

RECURSIVE InfraccionesSum(_, _)
InfraccionesSum(log, n) ==
    IF n = 0 THEN 0 ELSE InfraccionesSum(log, n - 1) + log[n].infracciones

\* C15: in both modes, when the batch has ended, infracciones_total of the run
\* metadata is the sum of the numbers of infractions of the processed files and
\* archivos_con_infracciones is the number of files of the batch that have at
\* least one infraction.
C15_RunMetaCounts ==
    pc = "done" =>
        /\ session.run_meta[1].infracciones_total = InfraccionesSum(lote_log, Len(lote_log))
        /\ session.run_meta[1].archivos_con_infracciones
               = Cardinality({k \in DOMAIN lote_log : lote_log[k].infracciones > 0})

\* ------------------------------------------------------------------ ZipSpec
\* The packaging of processing.py 518-524 with _make_run_zip, alone, on every
\* list of up to MaxPaths paths of which any may be missing or repeated.

ZipPaths == {TxtPath("a"), XlsxPath("a"), DocxPath("a"), TxtPath("b")}

ZipInit ==
    /\ args \in [fn : {"_make_run_zip"},
                 paths : SeqsUpTo(ZipPaths, MaxPaths),
                 zip_fails : BOOLEAN]
    /\ ret = None
    /\ SegIdle
    /\ generated_paths = args.paths
    /\ txt_disk \in [FileBases -> {NoText, NewText(<<"Archivo">>)}]
    /\ xlsx_disk \in [FileBases -> {NoWorkbook, NewWorkbook}]
    /\ xlsx_disk["b"] = NoWorkbook
    /\ docx_disk \in SUBSET {DocxPath("a")}
    /\ l_txt = NoText /\ l_xlsx = NoWorkbook /\ zip_disk = None
    /\ cfg = "None" /\ audio_files = <<>> /\ ffmpeg = TRUE
    /\ pc = "idle" /\ idx = 0 /\ i = 0
    /\ session = "None" /\ files_status = 0 /\ file_status = <<>>
    /\ infracciones_lote = <<>> /\ files_info = <<>>
    /\ samplerate = 0 /\ total_duration = 0 /\ num_segments = 0 /\ diar = None
    /\ segments_done = <<>> /\ infracciones_encontradas = <<>> /\ segment_errors = 0
    /\ result = <<>>
    /\ clips = 0 /\ progress_disk = <<>>
    /\ seg_log = <<>> /\ progress_log = <<>> /\ decode_log = <<>> /\ clips_made = 0
    /\ diar_log = "None" /\ last_write = "None"
    /\ clips_leaked = 0 /\ ckpt_kept = {} /\ lote_log = <<>>
    /\ tuples_left = 0 /\ faults_left = 0

\* 519-521: the paths that exist, each once, are handed to _make_run_zip, which
\* returns the path of the archive, or None when writing it raised
ZipCall ==
    /\ ret = None
    /\ LET paths == Dedupe(Existing(generated_paths, docx_disk))
       IN  /\ generated_paths' = paths
           /\ IF args.zip_fails
              THEN ret' = <<None>> /\ UNCHANGED zip_disk
              ELSE /\ ret' = << <<"corrida.zip">> >>
                   /\ zip_disk' = make_run_zip(paths, docx_disk)
    /\ UNCHANGED <<args, svars, invars, rmvars, lote_log, pc, idx, i, session, files_status,
                   file_status, infracciones_lote, files_info, filevars,
                   clips, progress_disk, txt_disk, xlsx_disk, l_txt, l_xlsx, docx_disk,
                   histvars>>

ZipNext == ZipCall

ZipSpec == ZipInit /\ [][ZipNext]_vars

\* path k of the list exists and does not occur before k
FirstExisting(paths, k) ==
    /\ PathExists(paths[k], docx_disk)
    /\ \A j \in 1..(k - 1) : paths[j] # paths[k]

\* the paths of paths[1..n] that exist, each at its first occurrence
RECURSIVE Members(_, _)
Members(paths, n) ==
    IF n = 0 THEN <<>>
    ELSE Members(paths, n - 1) \o (IF FirstExisting(paths, n) THEN <<paths[n]>> ELSE <<>>)

LastStatus == file_status[Len(file_status)]

\* C17: the file whose loop has ended is reported as failed with no output
\* exactly when it produced no event and at least one of its segments failed;
\* a file with no event and no failed segment is reported as a success.
C17_FailedIffNoEventsAndErrors ==
    pc = "file_export" =>
        /\ Len(file_status) = Len(DecodedNames(idx + 1))
        /\ LastStatus = "error: no se obtuvo texto"
               <=> (segments_done = <<>> /\ FailedCount(seg_log) > 0)
        /\ (segments_done = <<>> /\ FailedCount(seg_log) = 0)
               => LastStatus = "success: Transcripcion finalizada"

\* a file all of whose output was lost: no event, a failed segment, and the
\* error message
C17_Witness ==
    /\ pc = "file_export"
    /\ segments_done = <<>>
    /\ FailedCount(seg_log) > 0
    /\ LastStatus = "error: no se obtuvo texto"

\* silent audio: segments were recognised, none failed, none gave an event
C17_SilentWitness ==
    /\ pc = "file_export"
    /\ num_segments > 0
    /\ segments_done = <<>>
    /\ FailedCount(seg_log) = 0
    /\ LastStatus = "success: Transcripcion finalizada"

\* C18: a file with a failed segment and an event reaches the end of its loop
\* (it is not aborted) and the message it is given differs from the message of
\* a file that completed without any segment error.
C18_CompletedWithErrorsDistinct ==
    (pc = "file_export" /\ segments_done # <<>> /\ FailedCount(seg_log) > 0) =>
        LastStatus # FileMessage(segments_done, 0)

\* the part of C18 the code keeps: such a file is not aborted, its events are
\* kept and its error count is the number of failed segments
C18_NotAborted ==
    (pc = "file_export" /\ segments_done # <<>> /\ FailedCount(seg_log) > 0) =>
        /\ Len(seg_log) = num_segments
        /\ segment_errors = FailedCount(seg_log)
        /\ LastStatus = "success: Transcripcion finalizada"

C18_Witness ==
    /\ pc = "file_export"
    /\ segments_done # <<>>
    /\ FailedCount(seg_log) > 0

\* ------------------------------------------------------------------ C19
\* every part of the state but the position of run_processing
AllButPc ==
    <<invars, rmvars, lote_log, idx, i, session, files_status, file_status, batchvars, filevars,
      diskvars, histvars>>

\* C19: the availability of ffmpeg is asked once, before the first file. When
\* there is none the run returns at once: no file is decoded or processed, no
\* output file comes to exist, and procesado, resultados, lote_result, run_meta
\* and run_package of the session stay as the previous run left them.
C19_NoDecoderNoEffect ==
    /\ [](ensure_ffmpeg = None /\ audio_files # <<>> => pc \in {"start", "returned"})
    /\ [][(ensure_ffmpeg = None /\ audio_files # <<>>) =>
             /\ pc = "start" /\ pc' = "returned"
             /\ decode_log' = <<>> /\ lote_log' = <<>>
             /\ UNCHANGED AllButPc]_vars

\* no ffmpeg: the run of a batch has returned, the results of the previous run
\* are in the session and the checkpoint an earlier run left is on the disk
C19_Witness ==
    /\ ensure_ffmpeg = None
    /\ pc = "returned"
    /\ Len(audio_files) = MaxFiles
    /\ session = EarlierSession
    /\ progress_disk["a"] = StaleCheckpoint
    /\ decode_log = <<>>
    /\ \A b \in FileBases : ~txt_disk[b].exists /\ ~xlsx_disk[b].exists

\* ------------------------------------------------------------------ C20
\* the events the engine log stands for, each with the speaker of its midpoint
WithSpeakers(events, turns) ==
    [k \in DOMAIN events |->
        [start |-> events[k].start, end |-> events[k].end, text |-> events[k].text,
         speaker |-> SpeakerFor(events[k].start + events[k].end, turns)]]

\* C20: whatever file is at PROGRESS_PATH when a file begins, its loop starts
\* at segment 0 with no event, no infraction and no error, and between
\* iterations and at the end of the file the events, the infractions, the error
\* count and the transcript of the file are given by the behaviour of the
\* engines on segments 0.. alone: two runs in which the engines behave alike give
\* the same results whether a checkpoint was there or not.
C20_CheckpointNeverResumed ==
    /\ (pc = "seg_begin" /\ seg_log = <<>>) =>
           /\ i = 0
           /\ segments_done = <<>>
           /\ infracciones_encontradas = <<>>
           /\ segment_errors = 0
    /\ (pc \in {"seg_begin", "file_close", "file_export"}) =>
           /\ segments_done
                = WithSpeakers(LogEvents(seg_log, Len(seg_log), WindowSamples), diar)
           /\ segment_errors = FailedCount(seg_log)
           /\ infracciones_encontradas = ScanEvents(segments_done, Len(segments_done))
           /\ txt_disk[file_base].lines
                = << <<"Archivo", audio_file>> >>
                  \o [k \in DOMAIN segments_done |-> LineOf(segments_done[k], samplerate)]

\* a file of two segments begins while the checkpoint of an interrupted run,
\* which says to go on at segment 1 with one event, is at its PROGRESS_PATH
C20_Witness ==
    /\ pc = "seg_begin" /\ seg_log = <<>>
    /\ num_segments = 2
    /\ progress_disk[PROGRESS_PATH] = StaleCheckpoint
    /\ i = 0 /\ segments_done = <<>>

\* the same file at its end: the checkpoint gone, the events those of the log
C20_EndWitness ==
    /\ pc = "file_export"
    /\ idx = 0 /\ file_base = "a"
    /\ Len(seg_log) = 2 /\ ~seg_log[1].failed /\ seg_log[1].tuples = <<>>
    /\ Len(segments_done) = 1
    /\ progress_disk["a"] = NoFile

\* ------------------------------------------------------------------ C21
\* the attempts to write the checkpoint of the current file that failed, counted
\* between two iterations and after the loop: one attempt per ended iteration,
\* one more per failed segment, the successful ones in progress_log
FailedWrites == Len(seg_log) + FailedCount(seg_log) - Len(progress_log)

\* C21: the step in which the write of the checkpoint after a segment fails
\* goes on to the next segment (or ends the loop) and changes neither the
\* events, the infractions nor the error count; and a file some of whose
\* checkpoint writes failed ends with the events, the infractions, the error
\* count and the message that the answers of the engines alone determine, which
\* are those of a run in which every write succeeded.
C21_WriteFailureIgnored ==
    /\ [][(pc = "emit" /\ result = <<>> /\ last_write' = "failed") =>
             /\ i' = i + 1
             /\ pc' = IF i + 1 < num_segments THEN "seg_begin" ELSE "file_close"
             /\ UNCHANGED <<segments_done, infracciones_encontradas, segment_errors,
                            file_status, txt_disk, xlsx_disk>>]_vars
    /\ []((pc \in {"seg_begin", "file_close", "file_export"} /\ FailedWrites > 0) =>
             LET events == WithSpeakers(LogEvents(seg_log, Len(seg_log), WindowSamples), diar)
             IN  /\ Len(seg_log) = i
                 /\ segments_done = events
                 /\ segment_errors = FailedCount(seg_log)
                 /\ infracciones_encontradas = ScanEvents(events, Len(events))
                 /\ (pc = "file_export" =>
                        /\ Len(seg_log) = num_segments
                        /\ LastStatus = FileMessage(events, FailedCount(seg_log))))

\* the write after the first of two segments failed; the file ended with the
\* events of both segments and the message of a success
C21_Witness ==
    /\ pc = "file_export"
    /\ FailedWrites = 1
    /\ Len(progress_log) = 1 /\ progress_log[1].next_segment = 2
    /\ Len(segments_done) = 2
    /\ segments_done[2].start >= WindowSamples
    /\ LastStatus = "success: Transcripcion finalizada"

\* ------------------------------------------------------------------ ParseSpec
\* infracciones.parse_infracciones_text on its own, as ui.render_config calls it
\* with the text of the terms box.

MaxRawLen == 5

\* letters in both cases, the blank, the separator
RawChars == {"a", "A", "b", " ", ","}

\* str.split(sep): the pieces between the separators, the empty ones kept
RECURSIVE Split(_, _, _)
Split(text, sep, piece) ==
    IF text = <<>> THEN <<piece>>
    ELSE IF Head(text) = sep THEN <<piece>> \o Split(Tail(text), sep, <<>>)
    ELSE Split(Tail(text), sep, Append(piece, Head(text)))

TerminoAsTyped(raw) == Strip(raw)

\* 15: termino = raw.strip().lower()
Termino(raw) == Lower(Strip(raw))

\* 14-21: the loop over the pieces; out is the list built so far (vistos is the
\* set of its terms)
RECURSIVE ParseLoop(_, _)
ParseLoop(pieces, out) ==
    IF pieces = <<>> THEN out
    ELSE LET termino == Termino(Head(pieces))
             vistos == {out[k].termino : k \in DOMAIN out}
         IN  IF termino = <<>> THEN ParseLoop(Tail(pieces), out)
             ELSE IF termino \in vistos THEN ParseLoop(Tail(pieces), out)
             ELSE ParseLoop(Tail(pieces), Append(out, [termino |-> termino]))

\* infracciones.parse_infracciones_text
parse_infracciones_text(text) == ParseLoop(Split(text, ",", <<>>), <<>>)

ParseInit ==
    /\ args \in [fn : {"parse_infracciones_text"}, text : SeqsUpTo(RawChars, MaxRawLen)]
    /\ ret = None
    /\ SegIdle
    /\ PipeIdle

ParseCall ==
    /\ ret = None
    /\ ret' = << parse_infracciones_text(args.text) >>
    /\ UNCHANGED <<args, svars, pvars>>

ParseNext == ParseCall

ParseSpec == ParseInit /\ [][ParseNext]_vars

\* the positions around the pieces of text: before it, its commas, after it
Cuts(text) == {0, Len(text) + 1} \cup {k \in 1..Len(text) : text[k] = ","}

\* the piece of text that begins after the cut c
PieceAfter(text, c) ==
    LET next == CHOOSE d \in Cuts(text) : d > c /\ \A e \in Cuts(text) : e > c => d <= e
    IN  SubSeq(text, c + 1, next - 1)

\* the piece with its outer blanks removed and its letters in lower case
Folded(piece) ==
    LET inner == {k \in 1..Len(piece) : piece[k] # " "}
        lo == CHOOSE k \in inner : \A j \in inner : k <= j
        hi == CHOOSE k \in inner : \A j \in inner : j <= k
    IN  IF inner = {} THEN <<>>
        ELSE [k \in 1..(hi - lo + 1) |->
                 CASE piece[lo + k - 1] = "A" -> "a"
                   [] piece[lo + k - 1] = "B" -> "b"
                   [] OTHER -> piece[lo + k - 1]]

\* the cut after which the term t first occurs in text
FirstCut(text, t) ==
    CHOOSE c \in Cuts(text) \ {Len(text) + 1} :
        /\ Folded(PieceAfter(text, c)) = t
        /\ \A d \in Cuts(text) \ {Len(text) + 1} : Folded(PieceAfter(text, d)) = t => c <= d

\* str.join: the terms with a comma between them
RECURSIVE JoinTerms(_)
JoinTerms(out) ==
    IF out = <<>> THEN <<>>
    ELSE IF Len(out) = 1 THEN out[1].termino
    ELSE out[1].termino \o <<",">> \o JoinTerms(Tail(out))

\* C22: the list returned for a text holds exactly the non-empty terms of the
\* text, each trimmed and in lower case, each once, in the order in which they
\* first occur in the text; and parsing the comma-join of the list gives the
\* list again.
C22_ParseTerms ==
    ret # None =>
        LET out == ret[1]
            text == args.text
            starts == Cuts(text) \ {Len(text) + 1}
        IN  /\ {out[k].termino : k \in DOMAIN out}
                 = {Folded(PieceAfter(text, c)) : c \in starts} \ {<<>>}
            /\ \A j, k \in DOMAIN out : j # k => out[j].termino # out[k].termino
            /\ \A j, k \in DOMAIN out :
                   j < k => FirstCut(text, out[j].termino) < FirstCut(text, out[k].termino)
            /\ parse_infracciones_text(JoinTerms(out)) = out

\* "A,b,a": the capital comes first, in lower case, and the later "a" is dropped
C22_Witness ==
    /\ ret # None
    /\ args.text = <<"A", ",", "b", ",", "a">>
    /\ ret[1] = << [termino |-> <<"a">>], [termino |-> <<"b">>] >>

\* a padded term among empty pieces
C22_PaddedWitness ==
    /\ ret # None
    /\ args.text = <<",", " ", "A", " ", ",">>
    /\ ret[1] = << [termino |-> <<"a">>] >>

\* ------------------------------------------------------------------ C23
\* the segment loop of a file is running
InSegmentLoop == pc \in {"seg_begin", "asr", "emit"}

\* C23: no step taken while the segments of a file are being processed changes
\* the infraction list of the batch, the batch-wide text or the batch-wide
\* workbook.
C23_BatchAccumulatorsAfterLoop ==
    [][InSegmentLoop => UNCHANGED <<infracciones_lote, l_txt, l_xlsx>>]_vars

\* the part of C23 the code keeps: the infraction list of the batch, the list
\* of the files and the results of the session change only once the loop of the
\* file has returned
C23_InfractionListAfterLoop ==
    [][(infracciones_lote' # infracciones_lote \/ files_info' # files_info
           \/ session'.resultados # session.resultados)
          => pc \in {"start", "file_export"}]_vars

\* ------------------------------------------------------------------ ClipSpec
\* One turn of `for i in range(num_segments)` and one tuple of its answer
\* (processing.py 265-308), alone: the recogniser is free in the times it
\* reports, the code adds start_sec to them.

MaxClipOffset == 3      \* clip-relative start and end of a tuple, in samples, for one clip alone

ClipTuples ==
    { tup \in [start : 0..MaxClipOffset, end : 0..MaxClipOffset, text : {<<" ">>, <<" ", "a">>}] :
        tup.start <= tup.end }

ClipInit ==
    /\ args \in { a \in [fn : {"segment_events"}, nsamples : 0..MaxSamples, i : 0..MaxSamples,
                         tup : ClipTuples] :
                    a.i < NumSegments(TotalDuration(a.nsamples, SampleRate), SampleRate, MaxWindow) }
    /\ ret = None
    /\ SegIdle
    /\ PipeIdle

\* 266-308: the event of the tuple, none when its text is blank
ClipCall ==
    /\ ret = None
    /\ LET ev == Event(args.tup, StartSec(args.i, SampleRate, MaxWindow), <<>>)
       IN  ret' = << IF ev.text = <<>> THEN <<>> ELSE <<ev>> >>
    /\ UNCHANGED <<args, svars, pvars>>

ClipNext == ClipCall

ClipSpec == ClipInit /\ [][ClipNext]_vars

\* the window of the segment of the call, in samples
ClipStart == StartSec(args.i, SampleRate, MaxWindow)

ClipEnd == EndSec(args.i, SampleRate, MaxWindow, TotalDuration(args.nsamples, SampleRate))

\* C24: the event of a tuple has the tuple's start and end plus the start of
\* the segment whose clip was transcribed, and lies inside the window of that
\* segment.
C24_EventInsideSegment ==
    (ret # None /\ ret[1] # <<>>) =>
        LET ev == ret[1][1]
        IN  /\ ev.start = args.tup.start + ClipStart
            /\ ev.end = args.tup.end + ClipStart
            /\ ClipStart <= ev.start
            /\ ev.end <= ClipEnd

\* the part of C24 the code keeps: absolute time is clip time plus the start
\* of the segment, so no event starts before its segment
C24_AbsoluteTime ==
    (ret # None /\ ret[1] # <<>>) =>
        LET ev == ret[1][1]
        IN  /\ ev.start = args.tup.start + ClipStart
            /\ ev.end = args.tup.end + ClipStart
            /\ ClipStart <= ev.start

\* ------------------------------------------------------------------ C25
\* C25 as stated: every segment the loop produces has start_sec < end_sec, for
\* every duration >= 0 and every window > 0.
C25_StartBeforeEnd ==
    \A k \in DOMAIN seg_list : seg_list[k].start_sec < seg_list[k].end_sec

\* C25: every segment the loop produces for a duration > 0 has
\* start_sec < end_sec; for the duration 0 the loop produces the one segment
\* [0, 0], whose start equals its end.
C25_StartBeforeEndUnlessEmpty ==
    /\ seg_n > 0 => \A k \in DOMAIN seg_list : seg_list[k].start_sec < seg_list[k].end_sec
    /\ (seg_n = 0 /\ SegLoopDone) => seg_list = << [start_sec |-> 0, end_sec |-> 0] >>

\* 30.5 s at a 30 s window: the last segment is the half second [30, 30.5)
C25_Witness ==
    /\ SegLoopDone
    /\ seg_n = 61 /\ seg_rate = 2 /\ seg_w = 30
    /\ Len(seg_list) = 2
    /\ seg_list[2] = [start_sec |-> 60, end_sec |-> 61]

\* an empty file: one segment of length zero
C25_EmptyWitness ==
    /\ SegLoopDone
    /\ seg_n = 0
    /\ seg_list = << [start_sec |-> 0, end_sec |-> 0] >>

\* ------------------------------------------------------------------ C26
\* the trimmed texts of the tuples, the blank ones left out
RECURSIVE TupleTexts(_)
TupleTexts(tuples) ==
    IF tuples = <<>> THEN <<>>
    ELSE (IF \A k \in DOMAIN Head(tuples).text : Head(tuples).text[k] = " " THEN <<>>
          ELSE << Strip(Head(tuples).text) >>)
         \o TupleTexts(Tail(tuples))

\* the same for the answers log[1..k] of the recogniser
RECURSIVE LogTexts(_, _)
LogTexts(log, k) ==
    IF k = 0 THEN <<>>
    ELSE LogTexts(log, k - 1) \o (IF log[k].failed THEN <<>> ELSE TupleTexts(log[k].tuples))

NonBlank(text) == text # <<>> /\ text[1] # " " /\ text[Len(text)] # " "

\* C26: the step that consumes a tuple whose text is blank adds no event, no
\* line, no row and no infraction; in every state every event of the file and
\* of every checkpoint on disk has a non-blank trimmed text, and between
\* iterations the texts of the events are the trimmed texts of the non-blank
\* tuples the recogniser returned, in order.
C26_BlankTextDiscarded ==
    /\ [][(pc = "emit" /\ result # <<>>
             /\ \A k \in DOMAIN Head(result).text : Head(result).text[k] = " ") =>
             /\ pc' = "emit" /\ result' = Tail(result)
             /\ UNCHANGED <<segments_done, infracciones_encontradas, infracciones_lote,
                            txt_disk, xlsx_disk, l_txt, l_xlsx>>]_vars
    /\ [](/\ \A k \in DOMAIN segments_done : NonBlank(segments_done[k].text)
          /\ \A b \in FileBases : \A k \in DOMAIN progress_disk[b].segments_done :
                 NonBlank(progress_disk[b].segments_done[k].text)
          /\ \A k \in DOMAIN infracciones_encontradas : NonBlank(infracciones_encontradas[k].texto)
          /\ (pc \in {"seg_begin", "file_close", "file_export"} =>
                 [k \in DOMAIN segments_done |-> segments_done[k].text]
                    = LogTexts(seg_log, Len(seg_log))))

\* a clip answered with a blank tuple and a padded one: one event, one line
C26_Witness ==
    /\ pc = "file_close" /\ idx = 0
    /\ Len(seg_log) = 1 /\ Len(seg_log[1].tuples) = 2
    /\ seg_log[1].tuples[1].text = <<" ">>
    /\ seg_log[1].tuples[2].text = <<" ", "a">>
    /\ Len(segments_done) = 1 /\ segments_done[1].text = <<"a">>
    /\ Len(txt_disk[file_base].lines) = 2
    /\ progress_disk[PROGRESS_PATH].segments_done = segments_done

\* ------------------------------------------------------------------ C27
\* the row of an event in the sheet of its file
IndRowOf(ev, rate) ==
    <<hhmmss(ev.start \div rate), hhmmss(ev.end \div rate), ev.speaker, ev.text>>

\* the per-file text and sheet hold exactly the events of the processed file f
ExactOutputs(f) ==
    LET base == FileBase(f.archivo)
    IN  /\ txt_disk[base].lines
             = << <<"Archivo", f.archivo>> >>
               \o [k \in DOMAIN f.events |-> LineOf(f.events[k], f.samplerate)]
        /\ xlsx_disk[base].Transcripcion
             = <<IND_HEADERS>> \o [k \in DOMAIN f.events |-> IndRowOf(f.events[k], f.samplerate)]

\* C27: after a batch the per-file text and the transcript sheet of the
\* per-file workbook of every processed file hold exactly the events emitted
\* for that file in this run, in order, one line or row each, also when two
\* files of the batch share a base name.
C27_PerFileOutputsExact ==
    pc = "done" => \A k \in DOMAIN lote_log : ExactOutputs(lote_log[k])

\* the part of C27 the code keeps: it holds for the files whose base name no
\* other file of the batch has, no output of that name having existed before
C27_ExactForUniqueNames ==
    pc = "done" =>
        \A k \in DOMAIN lote_log :
            Cardinality({j \in DOMAIN audio_files :
                            FileBase(audio_files[j]) = FileBase(lote_log[k].archivo)}) = 1
                => ExactOutputs(lote_log[k])

\* ------------------------------------------------------------------ C28
\* C28: while a file is being processed, a checkpoint that exists at its
\* PROGRESS_PATH has next_segment equal to the number of iterations that have
\* ended in this run, at most num_segments, and events that are a prefix of the
\* events emitted so far in this run.
C28_CheckpointMatchesRun ==
    (pc \in {"seg_begin", "asr", "emit", "file_close"}
        /\ progress_disk[PROGRESS_PATH].file # "absent") =>
        /\ progress_disk[PROGRESS_PATH].file = "pickle"
        /\ progress_disk[PROGRESS_PATH].next_segment = i
        /\ progress_disk[PROGRESS_PATH].next_segment <= num_segments
        /\ IsPrefix(progress_disk[PROGRESS_PATH].segments_done, segments_done)

\* the part of C28 the code keeps: once a write of this run has succeeded the
\* checkpoint on disk is one this run wrote, or what a later failed write left
\* of it, and its events are a prefix of the events of the file
C28_AfterFirstWrite ==
    (pc \in {"seg_begin", "asr", "emit", "file_close"} /\ progress_log # <<>>) =>
        \/ progress_disk[PROGRESS_PATH] = Truncated
        \/ /\ progress_disk[PROGRESS_PATH] = progress_log[Len(progress_log)]
           /\ progress_disk[PROGRESS_PATH].next_segment <= num_segments
           /\ IsPrefix(progress_disk[PROGRESS_PATH].segments_done, segments_done)

\* ------------------------------------------------------------------ HistSpec
\* ui.render_history on its own: the files of the transcripts folder are
\* grouped by base name, tagged, sorted, and filtered by the two widgets.

MaxHistFiles == 2       \* files in the transcripts folder
MaxMtime == 2           \* modification times of the files

\* base names: two batches (one with a capital), a run archive, a recording, and
\* a recording whose name holds "lote_" without starting with it
HistBases ==
    { <<"l", "o", "t", "e", "_", "a">>,
      <<"L", "o", "t", "e", "_", "b">>,
      <<"c", "o", "r", "r", "i", "d", "a", "_", "a">>,
      <<"a">>,
      <<"a", "l", "o", "t", "e", "_">> }

HistFiles == [base : HistBases, ext : {"txt", "zip"}, mtime : 1..MaxMtime]

\* os.listdir: no two files have the same name
Listings ==
    { q \in SeqsUpTo(HistFiles, MaxHistFiles) :
        \A j, k \in DOMAIN q : j # k => (q[j].base # q[k].base \/ q[j].ext # q[k].ext) }

\* what may be typed into "Buscar por nombre (base)"
SearchTexts == { <<>>, <<"a">>, <<" ", "L", "o">> }

HistFilters == {"Todos", "Solo LOTES", "Solo IND", "Solo CORRIDAS"}

\* str.startswith
StartsWith(s, prefix) == Len(prefix) <= Len(s) /\ SubSeq(s, 1, Len(prefix)) = prefix

\* 464: the tag of a group
HistTag(base) ==
    IF StartsWith(Lower(base), <<"l", "o", "t", "e", "_">>) THEN "LOTE"
    ELSE IF StartsWith(Lower(base), <<"c", "o", "r", "r", "i", "d", "a", "_">>) THEN "ZIP LOTE"
    ELSE "IND"

\* 451-473: groups.setdefault(base, ...) and the update of the group, file
\* after file; the groups in the order of their first file
RECURSIVE HistGroups(_, _)
HistGroups(files, groups) ==
    IF files = <<>> THEN groups
    ELSE LET p == Head(files)
             at == {k \in DOMAIN groups : groups[k].base = p.base}
         IN  IF at = {}
             THEN HistGroups(Tail(files),
                      Append(groups, [base |-> p.base, tag |-> HistTag(p.base),
                                      mtime |-> p.mtime, exts |-> {p.ext}]))
             ELSE LET k == CHOOSE k \in at : TRUE
                  IN  HistGroups(Tail(files),
                          [groups EXCEPT ![k] = [@ EXCEPT !.mtime = Max(@, p.mtime),
                                                          !.exts = @ \cup {p.ext}]])

\* 476: items.sort(key=mtime, reverse=True), which keeps equal keys in order
RECURSIVE HistInsert(_, _)
HistInsert(sorted, it) ==
    IF sorted = <<>> THEN <<it>>
    ELSE IF sorted[Len(sorted)].mtime >= it.mtime THEN Append(sorted, it)
    ELSE Append(HistInsert(SubSeq(sorted, 1, Len(sorted) - 1), it), sorted[Len(sorted)])

RECURSIVE HistSort(_, _)
HistSort(items, k) == IF k = 0 THEN <<>> ELSE HistInsert(HistSort(items, k - 1), items[k])

\* 484-493: passes
passes(it, flt, search) ==
    /\ ~(flt = "Solo LOTES" /\ it.tag # "LOTE")
    /\ ~(flt = "Solo IND" /\ it.tag # "IND")
    /\ ~(flt = "Solo CORRIDAS" /\ it.tag # "ZIP")
    /\ ~(search # <<>> /\ ~Contains(search, Lower(it.base)))

\* 428-495: the items the history view offers
render_history(files, search_raw, flt) ==
    LET groups == HistGroups(files, <<>>)
        items == HistSort(groups, Len(groups))
        search == Lower(Strip(search_raw))
    IN  SelectSeq(items, LAMBDA it : passes(it, flt, search))

HistInit ==
    /\ args \in [fn : {"render_history"}, files : Listings, search : SearchTexts,
                 flt : HistFilters]
    /\ ret = None
    /\ SegIdle
    /\ PipeIdle

HistCall ==
    /\ ret = None
    /\ ret' = << render_history(args.files, args.search, args.flt) >>
    /\ UNCHANGED <<args, svars, pvars>>

HistNext == HistCall

HistSpec == HistInit /\ [][HistNext]_vars

\* the base names in the folder
FolderBases == {args.files[k].base : k \in DOMAIN args.files}

\* base begins with prefix, the case of the letters aside
BeginsWith(base, prefix) ==
    /\ Len(prefix) <= Len(base)
    /\ \A k \in DOMAIN prefix : LowerChar(base[k]) = prefix[k]

\* the kind of groups a filter option is for
OfKind(base, flt) ==
    LET lote == BeginsWith(base, <<"l", "o", "t", "e", "_">>)
        corrida == BeginsWith(base, <<"c", "o", "r", "r", "i", "d", "a", "_">>)
    IN  CASE flt = "Solo LOTES" -> lote
          [] flt = "Solo CORRIDAS" -> corrida
          [] flt = "Solo IND" -> ~lote /\ ~corrida
          [] OTHER -> TRUE

\* the text of the search box occurs in base, the case of the letters aside
NameMatches(base, search_raw) ==
    LET typed == SelectSeq(search_raw, LAMBDA c : c # " ")
    IN  \E p \in 0..(Len(base) - Len(typed)) :
            \A k \in DOMAIN typed : LowerChar(base[p + k]) = LowerChar(typed[k])

\* C29: the view offers exactly the groups of the kind of the chosen filter
\* whose base name passes the search.
C29_FilterShowsItsKind ==
    ret # None =>
        {ret[1][k].base : k \in DOMAIN ret[1]}
            = {b \in FolderBases : OfKind(b, args.flt) /\ NameMatches(b, args.search)}

\* the part of C29 the code keeps: the three other options
C29_OtherFilters ==
    (ret # None /\ args.flt # "Solo CORRIDAS") =>
        {ret[1][k].base : k \in DOMAIN ret[1]}
            = {b \in FolderBases : OfKind(b, args.flt) /\ NameMatches(b, args.search)}

\* what "Solo CORRIDAS" shows
C29_CorridasShowsNothing ==
    (ret # None /\ args.flt = "Solo CORRIDAS") => ret[1] = <<>>


====
